---- MODULE Spec2Model ----
(***************************************************************************)
(* winnow-regex: a compiled regular expression used as a winnow parser.    *)
(* The model covers the pattern conversion (RegexPattern), the engine      *)
(* contract (regex_trait::Regex / CaptureLocations, with the regex crate's *)
(* leftmost-first search behind it), captures_impl, the two parsers'       *)
(* parse_next, and Index<usize> for Captures, driven by a caller that owns *)
(* the stream, feeds it and completes it.                                  *)
(***************************************************************************)
EXTENDS Integers, Sequences, FiniteSets, TLC

VARIABLES pattern, partialSupported, partial, buf, pos, last, prev, total, indexed

vars == <<pattern, partialSupported, partial, buf, pos, last, prev, total, indexed>>

\* ---------------------------------------------------------------- bounds
\* longest buffer the caller grows by feeding
MaxBuf == 3
\* longest generated initial buffer
MaxInit == 2
\* longest extension appended when a match is re-examined on a longer buffer
MaxExt == 2

\* ------------------------------------------------------------ characters
Digit == {"1", "2", "3", "4"}
Letter == {"a", "b", "c", "x", "y", "z"}
Word == Digit \cup Letter
\* units the caller feeds into a growing buffer
FeedUnits == {"1", "a", "x"}

RECURSIVE Strings(_)
Strings(n) ==
    IF n = 0 THEN {<<>>}
    ELSE LET shorter == Strings(n - 1)
         IN shorter \cup {Append(s, c) : s \in {t \in shorter : Len(t) = n - 1}, c \in FeedUnits}

\* the inputs of the crate's tests and doc examples
ExampleInputs ==
    { <<"4", "2", "a", "b", "c">>,
      <<"a", "b", "c", "4", "2">>,
      <<"4", "2", "x", "y", "z">>,
      <<"1", "2", "3">>,
      <<"1", "2", "3", "a", "b", "c">>,
      <<"1", "1", "x", "4", "2", "a", "b", "c">> }

\* ------------------------------------------------------- regex syntax tree
Cls(S) == [t |-> "cls", cls |-> S]
Bol == [t |-> "bol"]
Eps == [t |-> "eps"]
Cat(l, r) == [t |-> "cat", l |-> l, r |-> r]
Alt(l, r) == [t |-> "alt", l |-> l, r |-> r]
Star(r) == [t |-> "star", r |-> r]
Plus(r) == Cat(r, Star(r))
Opt(r) == Alt(r, Eps)
Grp(g, r) == [t |-> "grp", g |-> g, r |-> r]

\* the capture groups (besides group 0) of the pattern of the captures
\* example, the most of any pattern below
MaxGroup == 2

\* the patterns of the crate's tests and doc examples, and four more that
\* exercise a zero-length match, an optional tail, a group that does not
\* participate and a single-unit match; "\\d+" is the unanchored pattern of
\* test_re
Patterns ==
    { "^\\d+", "\\d+", "^\\w+", "^(\\d+)x(\\d+)",
      "\\d*", "^\\d+(?:x\\d+)?", "^(?:(\\d+)|(a+))", "^\\w" }

\* RegexPattern::try_into_regex: the text of a pattern to its compiled form
try_into_regex(p) ==
    CASE p = "^\\d+" -> [ast |-> Cat(Bol, Plus(Cls(Digit))), groups |-> 0]
      [] p = "\\d+" -> [ast |-> Plus(Cls(Digit)), groups |-> 0]
      [] p = "^\\w+" -> [ast |-> Cat(Bol, Plus(Cls(Word))), groups |-> 0]
      [] p = "^\\w" -> [ast |-> Cat(Bol, Cls(Word)), groups |-> 0]
      [] p = "^(\\d+)x(\\d+)" ->
            [ast |-> Cat(Bol, Cat(Grp(1, Plus(Cls(Digit))),
                                  Cat(Cls({"x"}), Grp(2, Plus(Cls(Digit)))))),
             groups |-> 2]
      [] p = "\\d*" -> [ast |-> Star(Cls(Digit)), groups |-> 0]
      [] p = "^\\d+(?:x\\d+)?" ->
            [ast |-> Cat(Bol, Cat(Plus(Cls(Digit)),
                                  Opt(Cat(Cls({"x"}), Plus(Cls(Digit)))))),
             groups |-> 0]
      [] p = "^(?:(\\d+)|(a+))" ->
            [ast |-> Cat(Bol, Alt(Grp(1, Plus(Cls(Digit))), Grp(2, Plus(Cls({"a"}))))),
             groups |-> 2]

\* ------------------------------------------------------------- the engine
\* Option<(usize, usize)>: None is the empty tuple
None == <<>>
Some(s, e) == <<s, e>>

NoCaps == [g \in 1..MaxGroup |-> None]
Merge(c1, c2) == [g \in 1..MaxGroup |-> IF c2[g] # None THEN c2[g] ELSE c1[g]]

\* F applied to the value of x, x evaluated once
With(x, F(_)) == CHOOSE v \in {F(y) : y \in {x}} : TRUE

\* every result of rs, after a left part that recorded the groups c
Extend(c, rs) == [j \in 1..Len(rs) |-> [e |-> rs[j].e, c |-> Merge(c, rs[j].c)]]

\* group g spans from i to the end of each result
Tag(rs, g, i) ==
    [j \in 1..Len(rs) |-> [e |-> rs[j].e, c |-> [rs[j].c EXCEPT ![g] = Some(i, rs[j].e)]]]

RECURSIVE Ends(_, _, _), Continue(_, _, _, _)

\* every way node n matches s from offset i, in the engine's order of
\* preference (leftmost-first: earlier alternative, longer repetition)
Ends(n, s, i) ==
    CASE n.t = "cls" ->
            IF i < Len(s) /\ s[i + 1] \in n.cls THEN <<[e |-> i + 1, c |-> NoCaps]>> ELSE <<>>
      [] n.t = "bol" -> IF i = 0 THEN <<[e |-> i, c |-> NoCaps]>> ELSE <<>>
      [] n.t = "eps" -> <<[e |-> i, c |-> NoCaps]>>
      [] n.t = "cat" -> With(Ends(n.l, s, i), LAMBDA ls : Continue(ls, n.r, s, 1))
      [] n.t = "alt" -> Ends(n.l, s, i) \o Ends(n.r, s, i)
      [] n.t = "star" ->
            With(Ends(n.r, s, i), LAMBDA ls : Continue(ls, n, s, 1)) \o <<[e |-> i, c |-> NoCaps]>>
      [] n.t = "grp" -> With(Ends(n.r, s, i), LAMBDA rs : Tag(rs, n.g, i))

\* node r matched from the end of each result of ls, from the k-th on
Continue(ls, r, s, k) ==
    IF k > Len(ls) THEN <<>>
    ELSE With(Ends(r, s, ls[k].e), LAMBDA rs : Extend(ls[k].c, rs)) \o Continue(ls, r, s, k + 1)

\* Regex::capture_locations: fresh storage, one slot per group and group 0
capture_locations(re) == [len |-> re.groups + 1, slots |-> [g \in 0..re.groups |-> None]]

\* the first result of the leftmost offset of the haystack where the pattern
\* matches, None when it matches nowhere
Leftmost(re, haystack) ==
    With({i \in 0..Len(haystack) : Ends(re.ast, haystack, i) # <<>>},
         LAMBDA starts :
            IF starts = {} THEN None
            ELSE With(CHOOSE i \in starts : \A j \in starts : i <= j,
                      LAMBDA st : <<st, Ends(re.ast, haystack, st)[1]>>))

\* Regex::captures_read: the first match anywhere in the haystack, its bounds
\* and the bounds of every group written into locs
captures_read(re, locs, haystack) ==
    With(Leftmost(re, haystack),
         LAMBDA f :
            IF f = None THEN [m |-> None, locs |-> locs]
            ELSE [m |-> Some(f[1], f[2].e),
                  locs |-> [locs EXCEPT !.slots =
                              [g \in 0..re.groups |->
                                  IF g = 0 THEN Some(f[1], f[2].e) ELSE f[2].c[g]]]])

\* CaptureLocations::get and CaptureLocations::len
get(locs, i) == IF i < locs.len THEN locs.slots[i] ELSE None
len(locs) == locs.len

\* ------------------------------------------------------------- the stream
\* Stream::peek_finish: the unconsumed suffix, the cursor left in place
peek_finish(input) == SubSeq(input.buf, input.pos + 1, Len(input.buf))
\* a slip: the length of the whole buffer instead of what is left of it
eof_offset_whole(input) == Len(input.buf)
\* Stream::eof_offset
eof_offset(input) == Len(input.buf) - input.pos
\* a slip: the stream type's capability instead of the stream's current mode
is_partial_static(input) == input.partialSupported
\* StreamIsPartial::is_partial
is_partial(input) == input.partial
\* a slip: the slice is taken from a peek, the cursor stays
next_slice_peek(input, n) ==
    [slice |-> SubSeq(input.buf, input.pos + 1, input.pos + n), input |-> input]
\* Stream::next_slice: the first n units, and the stream advanced past them
next_slice(input, n) ==
    [slice |-> SubSeq(input.buf, input.pos + 1, input.pos + n),
     input |-> [input EXCEPT !.pos = input.pos + n]]

\* -------------------------------------------------------------- the parser
Ok(caps, input) == [kind |-> "Ok", slice |-> caps.slice, locs |-> caps.locs, input |-> input]
\* Err(E::incomplete(input, Needed::Unknown))
ErrIncomplete(input) == [kind |-> "Incomplete", slice |-> <<>>, locs |-> None, input |-> input]
\* Err(ParserError::from_input(input))
ErrFromInput(input) == [kind |-> "Backtrack", slice |-> <<>>, locs |-> None, input |-> input]

\* a slip: a match is accepted wherever it starts
captures_impl_unanchored(input, re, PARTIAL) ==
    With(captures_read(re, capture_locations(re), peek_finish(input)), LAMBDA r :
       IF r.m # None
       THEN LET end == r.m[2]
            IN IF PARTIAL /\ is_partial(input) /\ eof_offset(input) = end
               THEN ErrIncomplete(input)
               ELSE LET ns == next_slice(input, end)
                    IN Ok([slice |-> ns.slice, locs |-> r.locs], ns.input)
       ELSE IF PARTIAL /\ is_partial(input)
            THEN ErrIncomplete(input)
            ELSE ErrFromInput(input))

\* a slip: >= for == in the test that the match touches the end of the buffer
captures_impl_ge(input, re, PARTIAL) ==
    With(captures_read(re, capture_locations(re), peek_finish(input)), LAMBDA r :
       IF r.m # None /\ r.m[1] = 0
       THEN LET end == r.m[2]
            IN IF PARTIAL /\ is_partial(input) /\ eof_offset(input) >= end
               THEN ErrIncomplete(input)
               ELSE LET ns == next_slice(input, end)
                    IN Ok([slice |-> ns.slice, locs |-> r.locs], ns.input)
       ELSE IF PARTIAL /\ is_partial(input)
            THEN ErrIncomplete(input)
            ELSE ErrFromInput(input))

\* a slip: the slice is split off before the outcome is decided
captures_impl_eager(input, re, PARTIAL) ==
    With(captures_read(re, capture_locations(re), peek_finish(input)), LAMBDA r :
       IF r.m # None /\ r.m[1] = 0
       THEN LET end == r.m[2]
                ns == next_slice(input, end)
            IN IF PARTIAL /\ is_partial(input) /\ eof_offset(input) = end
               THEN ErrIncomplete(ns.input)
               ELSE Ok([slice |-> ns.slice, locs |-> r.locs], ns.input)
       ELSE IF PARTIAL /\ is_partial(input)
            THEN ErrIncomplete(input)
            ELSE ErrFromInput(input))

\* a slip: the engine is handed the whole buffer and its match is accepted
\* when it starts at the cursor, so that ^ only matches where the buffer starts
captures_impl_at(input, re, PARTIAL) ==
    With(Leftmost(re, input.buf), LAMBDA f :
       IF f # None /\ f[1] = input.pos
       THEN LET end == f[2].e - input.pos
            IN IF PARTIAL /\ is_partial(input) /\ eof_offset(input) = end
               THEN ErrIncomplete(input)
               ELSE LET ns == next_slice(input, end)
                    IN Ok([slice |-> ns.slice, locs |-> capture_locations(re)], ns.input)
       ELSE IF PARTIAL /\ is_partial(input)
            THEN ErrIncomplete(input)
            ELSE ErrFromInput(input))

captures_impl(input, re, PARTIAL) ==
    With(captures_read(re, capture_locations(re), peek_finish(input)), LAMBDA r :
       IF r.m # None /\ r.m[1] = 0
       THEN LET end == r.m[2]
            IN IF PARTIAL /\ is_partial(input) /\ eof_offset(input) = end
               THEN ErrIncomplete(input)
               ELSE LET ns == next_slice(input, end)
                    IN Ok([slice |-> ns.slice, locs |-> r.locs], ns.input)
       ELSE IF PARTIAL /\ is_partial(input)
            THEN ErrIncomplete(input)
            ELSE ErrFromInput(input))

\* CapturesParser::parse_next
CapturesParser_parse_next(re, input) ==
    IF input.partialSupported
    THEN captures_impl(input, re, TRUE)
    ELSE captures_impl(input, re, FALSE)

\* RegexParser::parse_next: the same, keeping only the slice
RegexParser_parse_next(re, input) ==
    LET r == IF input.partialSupported
             THEN captures_impl(input, re, TRUE)
             ELSE captures_impl(input, re, FALSE)
    IN [r EXCEPT !.locs = None]

\* Index<usize> for Captures
Unset == [kind |-> "unset", val |-> <<>>, msg |-> ""]
\* a slip: the group's slice runs to the end of the match
index_open(caps, i) ==
    LET g == get(caps.locs, i)
    IN IF g # None
       THEN [kind |-> "ok", val |-> SubSeq(caps.slice, g[1] + 1, Len(caps.slice)), msg |-> ""]
       ELSE [kind |-> "panic", val |-> <<>>, msg |-> "index out of bounds"]
index(caps, i) ==
    LET g == get(caps.locs, i)
    IN IF g # None
       THEN [kind |-> "ok", val |-> SubSeq(caps.slice, g[1] + 1, g[2]), msg |-> ""]
       ELSE [kind |-> "panic", val |-> <<>>, msg |-> "index out of bounds"]

\* ------------------------------------------------------------------ state
Adapters == {"regex", "captures"}
Indices == 0..(MaxGroup + 1)

NoCall ==
    [called |-> FALSE, adapter |-> "", hay |-> <<>>, incomplete |-> FALSE, from |-> 0,
     kind |-> "", slice |-> <<>>, locs |-> None, rest |-> <<>>, partialAfter |-> FALSE]

Stream == [buf |-> buf, pos |-> pos, partialSupported |-> partialSupported, partial |-> partial]

\* the unconsumed suffix of the buffer
Hay == SubSeq(buf, pos + 1, Len(buf))

Init ==
    /\ pattern \in Patterns
    /\ partialSupported \in BOOLEAN
    /\ partial = partialSupported
    /\ buf \in ExampleInputs \cup Strings(MaxInit)
    /\ pos = 0
    /\ last = NoCall
    /\ prev = NoCall
    /\ total = 0
    /\ indexed = [i \in Indices |-> Unset]

\* the caller runs one of the two parsers on the stream
ParseNext(ad) ==
    \E re \in {try_into_regex(pattern)} :
    \E r \in {IF ad = "regex" THEN RegexParser_parse_next(re, Stream)
               ELSE CapturesParser_parse_next(re, Stream)} :
       /\ pos' = r.input.pos
       /\ last' = [called |-> TRUE, adapter |-> ad, hay |-> Hay,
                   incomplete |-> partialSupported /\ partial, from |-> pos,
                   kind |-> r.kind, slice |-> r.slice, locs |-> r.locs,
                   rest |-> SubSeq(buf, r.input.pos + 1, Len(buf)),
                   partialAfter |-> r.input.partial]
       /\ prev' = last
       /\ total' = total + (IF r.kind = "Ok" THEN Len(r.slice) ELSE 0)
       /\ indexed' = [i \in Indices |-> Unset]
       /\ UNCHANGED <<pattern, partialSupported, partial, buf>>

\* more input arrives on a partial stream
Feed(c) ==
    /\ partialSupported
    /\ partial
    /\ Len(buf) < MaxBuf
    /\ buf' = Append(buf, c)
    /\ UNCHANGED <<pattern, partialSupported, partial, pos, last, prev, total, indexed>>

\* StreamIsPartial::complete: no more input will arrive
Complete ==
    /\ partialSupported
    /\ partial
    /\ partial' = FALSE
    /\ UNCHANGED <<pattern, partialSupported, buf, pos, last, prev, total, indexed>>

\* the caller indexes the Captures it was handed, group after group
Index(i) ==
    /\ last.called
    /\ last.adapter = "captures"
    /\ last.kind = "Ok"
    /\ indexed[i] = Unset
    /\ \A j \in Indices : j < i => indexed[j] # Unset
    /\ indexed' = [indexed EXCEPT ![i] = index([slice |-> last.slice, locs |-> last.locs], i)]
    /\ UNCHANGED <<pattern, partialSupported, partial, buf, pos, last, prev, total>>

Next ==
    \/ \E ad \in Adapters : ParseNext(ad)
    \/ \E c \in FeedUnits : Feed(c)
    \/ Complete
    \/ \E i \in Indices : Index(i)

Spec == Init /\ [][Next]_vars

\* the caller's retry loop: it keeps invoking the parser, and the input it
\* reads is finite, so a partial stream is eventually completed
LiveSpec == Spec /\ WF_vars(\E ad \in Adapters : ParseNext(ad)) /\ WF_vars(Complete)

\* ----------------------------------------------------------------- claims
\* what the engine finds in the haystack of the last call
Found ==
    captures_read(try_into_regex(pattern), capture_locations(try_into_regex(pattern)), last.hay)
\* a match that starts at offset 0
Anchored(f) == f.m # None /\ f.m[1] = 0

\* C1: on a complete input whose first match starts at offset 0 and has
\* length L, the parser succeeds, returns the first L units, advances the
\* cursor by L and leaves the rest of the input.
C1_CompleteMatch ==
    (last.called /\ ~last.incomplete) =>
        \A f \in {Found} :
            Anchored(f) =>
                LET L == f.m[2]
                IN /\ last.kind = "Ok"
                   /\ last.slice = SubSeq(last.hay, 1, L)
                   /\ last.rest = SubSeq(last.hay, L + 1, Len(last.hay))
                   /\ pos = last.from + L

C1_Witness ==
    /\ last.called /\ ~last.incomplete
    /\ pattern = "^\\d+"
    /\ last.hay = <<"4", "2", "a", "b", "c">>
    /\ last.kind = "Ok"
    /\ last.slice = <<"4", "2">>
    /\ last.rest = <<"a", "b", "c">>

\* C2: on a complete input with no match, or whose first match starts after
\* offset 0, the parser fails with the backtracking error, not with
\* Incomplete, and the cursor stays.
C2_CompleteNoMatch ==
    (last.called /\ ~last.incomplete) =>
        \A f \in {Found} :
            ~Anchored(f) =>
                /\ last.kind = "Backtrack"
                /\ last.rest = last.hay
                /\ pos = last.from

C2_Witness ==
    /\ last.called /\ ~last.incomplete
    /\ pattern = "\\d+"
    /\ last.hay = <<"a", "b", "c", "4", "2">>
    /\ Found.m = Some(3, 5)
    /\ last.kind = "Backtrack"

\* C3: on a partial stream that is still incomplete, a match from offset 0
\* that ends at the end of the buffer (an empty match on an empty buffer too)
\* and the lack of a match from offset 0 both give Incomplete, and the cursor
\* stays.
C3_PartialUndecided ==
    (last.called /\ last.incomplete) =>
        \A f \in {Found} :
            (~Anchored(f) \/ f.m[2] = Len(last.hay)) =>
                /\ last.kind = "Incomplete"
                /\ last.rest = last.hay
                /\ pos = last.from

C3_Witness ==
    /\ last.called /\ last.incomplete
    /\ pattern = "\\d*"
    /\ last.hay = <<>>
    /\ Found.m = Some(0, 0)
    /\ last.kind = "Incomplete"

\* C4: on a partial stream that is still incomplete, a match from offset 0
\* that ends at E before the end of the buffer succeeds as on a complete
\* input: the first E units are returned, the cursor advances by E, the rest
\* is left, and the stream is still partial.
C4_PartialMatch ==
    (last.called /\ last.incomplete) =>
        \A f \in {Found} :
            (Anchored(f) /\ f.m[2] < Len(last.hay)) =>
                LET E == f.m[2]
                IN /\ last.kind = "Ok"
                   /\ last.slice = SubSeq(last.hay, 1, E)
                   /\ last.rest = SubSeq(last.hay, E + 1, Len(last.hay))
                   /\ pos = last.from + E
                   /\ last.partialAfter

C4_Witness ==
    /\ last.called /\ last.incomplete
    /\ pattern = "^\\d+"
    /\ last.hay = <<"1", "2", "3", "a", "b", "c">>
    /\ last.kind = "Ok"
    /\ last.slice = <<"1", "2", "3">>
    /\ last.rest = <<"a", "b", "c">>
    /\ partial

\* C5: a match accepted on a partial buffer is final: run from the same
\* position on the same buffer followed by any further input, the parser
\* returns a match with the same end.
C5_AcceptedMatchIsFinal ==
    (last.called /\ last.incomplete /\ last.kind = "Ok") =>
        \A t \in Strings(MaxExt) : \A f \in BOOLEAN :
            LET longer == [buf |-> SubSeq(buf, 1, last.from) \o last.hay \o t, pos |-> last.from,
                           partialSupported |-> TRUE, partial |-> f]
                r == CapturesParser_parse_next(try_into_regex(pattern), longer)
            IN r.kind = "Ok" /\ Len(r.slice) = Len(last.slice)

\* C6: the cursor moves only with a match, by the end offset of that match,
\* and not with a failure or with Incomplete; the consumed position is the sum
\* of the lengths of the matches returned so far.
C6_CursorIsSumOfMatches ==
    /\ pos = total
    /\ (last.called /\ last.kind = "Ok") => pos = last.from + Found.m[2]
    /\ (last.called /\ last.kind # "Ok") => (pos = last.from /\ last.rest = last.hay)

C6_Witness ==
    /\ prev.called /\ prev.kind = "Ok" /\ Len(prev.slice) > 0
    /\ last.called /\ last.kind = "Incomplete"
    /\ Len(last.hay) > Len(prev.rest)
    /\ pos = Len(prev.slice)

\* C7: group 0 of a Captures is the whole matched slice, the one the slice
\* parser returns, and a group that participated is the part of the input
\* between the bounds the engine recorded for it.
C7_GroupZeroIsSlice ==
    (last.called /\ last.adapter = "captures" /\ last.kind = "Ok") =>
        /\ indexed[0] # Unset =>
              /\ indexed[0] = [kind |-> "ok", val |-> last.slice, msg |-> ""]
              /\ last.slice = RegexParser_parse_next(try_into_regex(pattern),
                                  [buf |-> last.hay, pos |-> 0,
                                   partialSupported |-> last.incomplete,
                                   partial |-> last.incomplete]).slice
        /\ (\E i \in Indices : indexed[i] # Unset) =>
              \A f \in {Found} : \A i \in Indices :
                  (indexed[i] # Unset /\ i < f.locs.len /\ f.locs.slots[i] # None) =>
                      indexed[i] = [kind |-> "ok", msg |-> "",
                                    val |-> SubSeq(last.hay, f.locs.slots[i][1] + 1,
                                                   f.locs.slots[i][2])]

C7_Witness ==
    /\ last.called /\ last.adapter = "captures" /\ last.kind = "Ok"
    /\ pattern = "^(\\d+)x(\\d+)"
    /\ last.hay = <<"1", "1", "x", "4", "2", "a", "b", "c">>
    /\ indexed[0].val = <<"1", "1", "x", "4", "2">>
    /\ indexed[1].val = <<"1", "1">>
    /\ indexed[2].val = <<"4", "2">>

\* C8: indexing a group of the pattern that did not participate in the match
\* and indexing past the last group fail in two different ways.
C8_NonParticipatingDiffersFromOutOfRange ==
    (last.called /\ last.adapter = "captures" /\ last.kind = "Ok") =>
        \A i, j \in Indices :
            ( /\ i < len(last.locs) /\ get(last.locs, i) = None
              /\ j >= len(last.locs)
              /\ indexed[i] # Unset /\ indexed[j] # Unset ) =>
                indexed[i] # indexed[j]

\* C9: two calls on the same unconsumed input and the same incomplete flag
\* give the same kind of outcome and the same match end, wherever the cursor
\* stood and whatever was called in between.
C9_SameInputSameOutcome ==
    (prev.called /\ last.called /\ prev.hay = last.hay /\ prev.incomplete = last.incomplete) =>
        /\ prev.kind = last.kind
        /\ Len(prev.slice) = Len(last.slice)

C9_Witness ==
    /\ prev.called /\ last.called
    /\ prev.hay = last.hay /\ prev.incomplete = last.incomplete
    /\ prev.from < last.from
    /\ last.kind = "Ok"

\* C10: Incomplete is returned only by a call on a partial stream that is
\* still incomplete, and in the caller's retry loop an Incomplete outcome is
\* followed by a match or a failure.
C10_IncompleteIsNotForever ==
    /\ [](last.kind = "Incomplete" => last.incomplete)
    /\ (last.kind = "Incomplete") ~> (last.kind \in {"Ok", "Backtrack"})

C10_Witness ==
    /\ prev.called /\ prev.kind = "Incomplete"
    /\ last.called /\ last.kind \in {"Ok", "Backtrack"}
    /\ partialSupported /\ ~partial /\ ~last.incomplete

====
